---- MODULE Spec2Model ----
(***************************************************************************)
(* Model of FundamentalAlgorithms/patternmatching.py: the ELIZA responder  *)
(* (reflect, the patterns table, get_eliza_response) and the interactive   *)
(* loop eliza_chatbot; and of FundamentalAlgorithms/nltktokenization.py:   *)
(* tokenize_text, compute_vocabulary, heaps_law_estimation and             *)
(* text_analysis_pipeline.                                                 *)
(*                                                                         *)
(* A Python str is modelled as a sequence of one-character strings, so     *)
(* that strip, lower, split, join and the regular expressions are computed *)
(* character by character as the interpreter computes them.                *)
(***************************************************************************)
EXTENDS Integers, Sequences, FiniteSets, TLC

VARIABLES
    reflections,  \* the module-level dict `reflections`
    patterns,     \* the module-level list `patterns`
    user_input,   \* the argument of the current call / the local of the loop
    reply,        \* the value returned by the last call
    fired,        \* index of the rule whose lambda produced reply (0: none, -1: no call yet)
    pc,           \* position of the running program
    out,          \* everything written to stdout, one entry per write
    lines,        \* the lines input() has returned so far
    calls,        \* the calls of get_eliza_response the loop has made: argument and result
    input_text,   \* nltktokenization: the argument `text`
    token_list,   \* the list `tokens` that tokenize_text returned
    vocabulary,   \* the set compute_vocabulary returned
    num_tokens,   \* the first argument of heaps_law_estimation
    heaps_beta,   \* its argument beta, in tenths (7 stands for 0.7)
    heaps_k,      \* its argument k
    estimated_vocab_size,  \* the value heaps_law_estimation returned
    called,       \* the functions text_analysis_pipeline has called so far
    error         \* the exception that left the running function ("" when none)

\* The state of nltktokenization.py.
nlpvars ==
    <<input_text, token_list, vocabulary, num_tokens, heaps_beta, heaps_k,
      estimated_vocab_size, called, error>>

vars ==
    <<reflections, patterns, user_input, reply, fired, pc, out, lines, calls, nlpvars>>

----------------------------------------------------------------------------
(* Bounds of the model.                                                    *)

\* Number of pieces concatenated after the optional prefix and rule head of an input.
MaxPieces == 2

\* Number of lines the interactive loop reads before stdin is exhausted.
MaxTurns == 3

\* Number of pieces concatenated into a text given to the tokenizer.
MaxTextPieces == 2

\* Largest token count given to heaps_law_estimation.
MaxTokens == 4

----------------------------------------------------------------------------
(* nltktokenization.py before any of its functions is called.              *)

\* The defaults of heaps_law_estimation: beta = 0.7 (in tenths), k = 10.0.
DEFAULT_BETA == 7
DEFAULT_K == 10

\* No value returned yet.
NoEstimate == [kind |-> "none"]

AnalysisIdle ==
    /\ input_text = <<>>
    /\ token_list = <<>>
    /\ vocabulary = {}
    /\ num_tokens = 0
    /\ heaps_beta = DEFAULT_BETA
    /\ heaps_k = DEFAULT_K
    /\ estimated_vocab_size = NoEstimate
    /\ called = {}
    /\ error = ""

----------------------------------------------------------------------------
(* str methods.                                                            *)

\* The characters str.strip() and str.split() treat as whitespace (those in play).
WHITESPACE == {" ", "\t", "\n", "\r"}

UPPER_TO_LOWER ==
    [A |-> "a", B |-> "b", C |-> "c", D |-> "d", E |-> "e", F |-> "f", G |-> "g",
     H |-> "h", I |-> "i", J |-> "j", K |-> "k", L |-> "l", M |-> "m", N |-> "n",
     O |-> "o", P |-> "p", Q |-> "q", R |-> "r", S |-> "s", T |-> "t", U |-> "u",
     V |-> "v", W |-> "w", X |-> "x", Y |-> "y", Z |-> "z"]

LowerChar(c) == IF c \in DOMAIN UPPER_TO_LOWER THEN UPPER_TO_LOWER[c] ELSE c

\* str.lower()
Lower(s) == [i \in 1..Len(s) |-> LowerChar(s[i])]

\* str.strip(): drop the leading and the trailing run of whitespace.
Strip(s) ==
    LET keep  == { i \in 1..Len(s) : s[i] \notin WHITESPACE }
        first == CHOOSE i \in keep : \A j \in keep : i <= j
        last  == CHOOSE i \in keep : \A j \in keep : j <= i
    IN  IF keep = {} THEN <<>> ELSE SubSeq(s, first, last)

\* str.split() without arguments: scan left to right, cutting at every run of
\* whitespace; empty words are never produced.
RECURSIVE SplitFrom(_, _, _, _)
SplitFrom(s, i, word, acc) ==
    IF i > Len(s)
    THEN IF word = <<>> THEN acc ELSE Append(acc, word)
    ELSE IF s[i] \in WHITESPACE
         THEN SplitFrom(s, i + 1, <<>>, IF word = <<>> THEN acc ELSE Append(acc, word))
         ELSE SplitFrom(s, i + 1, Append(word, s[i]), acc)

Split(s) == SplitFrom(s, 1, <<>>, <<>>)

\* ' '.join(words)
RECURSIVE Join(_)
Join(words) ==
    IF words = <<>> THEN <<>>
    ELSE IF Len(words) = 1 THEN words[1]
    ELSE words[1] \o <<" ">> \o Join(Tail(words))

----------------------------------------------------------------------------
(* The reflections dict and reflect().                                     *)

ReflectionsTable ==
    (<<"a","m">> :> <<"a","r","e">>) @@
    (<<"w","a","s">> :> <<"w","e","r","e">>) @@
    (<<"i">> :> <<"y","o","u">>) @@
    (<<"i","'","d">> :> <<"y","o","u"," ","w","o","u","l","d">>) @@
    (<<"i","'","l","l">> :> <<"y","o","u"," ","w","i","l","l">>) @@
    (<<"i","'","v","e">> :> <<"y","o","u"," ","h","a","v","e">>) @@
    (<<"i","'","m">> :> <<"y","o","u"," ","a","r","e">>) @@
    (<<"m","y">> :> <<"y","o","u","r">>) @@
    (<<"a","r","e">> :> <<"a","m">>) @@
    (<<"w","e","r","e">> :> <<"w","a","s">>) @@
    (<<"y","o","u","'","v","e">> :> <<"I"," ","h","a","v","e">>) @@
    (<<"y","o","u","'","l","l">> :> <<"I"," ","w","i","l","l">>) @@
    (<<"y","o","u","'","d">> :> <<"I"," ","w","o","u","l","d">>) @@
    (<<"y","o","u","r">> :> <<"m","y">>) @@
    (<<"y","o","u","r","s">> :> <<"m","i","n","e">>) @@
    (<<"y","o","u">> :> <<"I">>) @@
    (<<"m","e">> :> <<"y","o","u">>)

\* reflections.get(token, token)
DictGet(refl, token) == IF token \in DOMAIN refl THEN refl[token] ELSE token

\* reflect without fragment.lower(): the tokens keep their letter case.
reflect_case_sensitive(refl, fragment) ==
    LET tokens == Split(fragment)
    IN  Join([i \in 1..Len(tokens) |-> DictGet(refl, tokens[i])])

\* reflect(fragment), reading the dict refl
reflect(refl, fragment) ==
    LET tokens == Split(Lower(fragment))
    IN  Join([i \in 1..Len(tokens) |-> DictGet(refl, tokens[i])])

----------------------------------------------------------------------------
(* The patterns table.  Every pattern has the shape                        *)
(*     literal  ( . quantifier )  [ \?? ]        compiled with IGNORECASE  *)
(* and every lambda the shape  pre + [reflect(group 1)] + post.            *)
(*   lit   the literal prefix                                              *)
(*   least the least number of characters of group 1: 1 for .+, 0 for .*   *)
(*   optq  whether the pattern ends in \??                                 *)
(*   echo  whether the lambda uses reflect(match.group(1))                 *)

PatternsTable == <<
    [lit |-> <<"I"," ","n","e","e","d"," ">>, least |-> 1, optq |-> FALSE, echo |-> TRUE,
     pre |-> <<"W","h","y"," ","d","o"," ","y","o","u"," ","n","e","e","d"," ">>,
     post |-> <<"?">>],
    [lit |-> <<"W","h","y"," ","d","o","n","'","t"," ","y","o","u"," ">>,
     least |-> 1, optq |-> TRUE, echo |-> TRUE,
     pre |-> <<"D","o"," ","y","o","u"," ","r","e","a","l","l","y"," ","t","h","i","n","k"," ","I"," ","d","o","n","'","t"," ">>,
     post |-> <<"?">>],
    [lit |-> <<"W","h","y"," ","c","a","n","'","t"," ","I"," ">>,
     least |-> 1, optq |-> TRUE, echo |-> TRUE,
     pre |-> <<"M","a","y","b","e"," ","y","o","u"," ","c","o","u","l","d"," ">>,
     post |-> <<" ","i","f"," ","y","o","u"," ","t","r","i","e","d",".">>],
    [lit |-> <<"I"," ","c","a","n","'","t"," ">>, least |-> 1, optq |-> FALSE, echo |-> TRUE,
     pre |-> <<"W","h","a","t"," ","m","a","k","e","s"," ","y","o","u"," ","t","h","i","n","k"," ","y","o","u"," ","c","a","n","'","t"," ">>,
     post |-> <<"?">>],
    [lit |-> <<"I"," ","a","m"," ">>, least |-> 1, optq |-> FALSE, echo |-> TRUE,
     pre |-> <<"H","o","w"," ","l","o","n","g"," ","h","a","v","e"," ","y","o","u"," ","b","e","e","n"," ">>,
     post |-> <<"?">>],
    [lit |-> <<"I","'","m"," ">>, least |-> 1, optq |-> FALSE, echo |-> TRUE,
     pre |-> <<"W","h","y"," ","a","r","e"," ","y","o","u"," ">>,
     post |-> <<"?">>],
    [lit |-> <<"I"," ","f","e","e","l"," ">>, least |-> 1, optq |-> FALSE, echo |-> TRUE,
     pre |-> <<"T","e","l","l"," ","m","e"," ","m","o","r","e"," ","a","b","o","u","t"," ","f","e","e","l","i","n","g"," ">>,
     post |-> <<".">>],
    [lit |-> <<>>, least |-> 0, optq |-> FALSE, echo |-> FALSE,
     pre |-> <<"P","l","e","a","s","e"," ","t","e","l","l"," ","m","e"," ","m","o","r","e",".">>,
     post |-> <<>>]
>>

\* An empty result after the loop.
FALLBACK_Empty == <<>>

\* The string get_eliza_response returns after its loop.
FALLBACK ==
    <<"I","'","m"," ","n","o","t"," ","s","u","r","e"," ","I"," ","u","n","d","e","r","s","t","a","n","d","."," ","C","a","n"," ","y","o","u"," ","e","l","a","b","o","r","a","t","e","?">>

----------------------------------------------------------------------------
(* re: Pattern.fullmatch for the patterns of the table.                    *)

NoMatch == [ok |-> FALSE, group1 |-> <<>>]

\* The literal prefix matches at the start of s, letter case ignored (re.IGNORECASE).
LiteralMatches(lit, s) ==
    /\ Len(s) >= Len(lit)
    /\ \A i \in 1..Len(lit) : LowerChar(s[i]) = LowerChar(lit[i])

\* "." matches every character but the line feed (no re.DOTALL).
DotMatches(c) == c # "\n"

\* What may follow group 1 up to the end of the string: nothing, or, for a
\* pattern ending in \??, one question mark.
TailMatches(p, t) == t = <<>> \/ (p.optq /\ t = <<"?">>)

\* pattern.search(s) in place of pattern.fullmatch(s): the leftmost place where
\* the literal is found, group 1 running from there to the end of the line.
search(p, s) ==
    LET n      == Len(p.lit)
        starts == { o \in 0..(Len(s) - n) :
                      /\ \A i \in 1..n : LowerChar(s[o + i]) = LowerChar(p.lit[i])
                      /\ p.least = 0 \/ (o + n < Len(s) /\ s[o + n + 1] # "\n") }
        o      == CHOOSE x \in starts : \A y \in starts : x <= y
        ends   == { j \in (o + n)..Len(s) : \A i \in (o + n + 1)..j : s[i] # "\n" }
        j      == CHOOSE x \in ends : \A y \in ends : y <= x
    IN  IF starts = {} THEN NoMatch
        ELSE [ok |-> TRUE, group1 |-> SubSeq(s, o + n + 1, j)]

\* fullmatch with a lazy group 1, (.+?) or (.*?): the shortest run after which
\* the rest of the pattern matches, so that \?? takes a final question mark.
fullmatch_lazy(p, s) ==
    IF ~LiteralMatches(p.lit, s) THEN NoMatch
    ELSE LET rest == SubSeq(s, Len(p.lit) + 1, Len(s))
             ks   == { k \in p.least..Len(rest) :
                         /\ \A i \in 1..k : DotMatches(rest[i])
                         /\ TailMatches(p, SubSeq(rest, k + 1, Len(rest))) }
             k    == CHOOSE x \in ks : \A y \in ks : x <= y
         IN  IF ks = {} THEN NoMatch
             ELSE [ok |-> TRUE, group1 |-> SubSeq(rest, 1, k)]

\* pattern.fullmatch(s): the greedy quantifier of group 1 takes the longest run
\* of "." characters after which the rest of the pattern still matches up to the
\* end of s (backtracking gives characters back one at a time).
fullmatch(p, s) ==
    IF ~LiteralMatches(p.lit, s) THEN NoMatch
    ELSE LET rest == SubSeq(s, Len(p.lit) + 1, Len(s))
             ks   == { k \in p.least..Len(rest) :
                         /\ \A i \in 1..k : DotMatches(rest[i])
                         /\ TailMatches(p, SubSeq(rest, k + 1, Len(rest))) }
             k    == CHOOSE x \in ks : \A y \in ks : y <= x
         IN  IF ks = {} THEN NoMatch
             ELSE [ok |-> TRUE, group1 |-> SubSeq(rest, 1, k)]

\* A lambda that formats match.group(1) into its reply without reflect.
response_function_raw(p, refl, match) ==
    p.pre \o (IF p.echo THEN match.group1 ELSE <<>>) \o p.post

\* The lambda of a rule applied to its match.
response_function(p, refl, match) ==
    p.pre \o (IF p.echo THEN reflect(refl, match.group1) ELSE <<>>) \o p.post

----------------------------------------------------------------------------
(* get_eliza_response.                                                     *)

\* The for loop over patterns[:-1]: the last rule of the table is never tried.
RECURSIVE ScanPatternsSkipLast(_, _, _, _)
ScanPatternsSkipLast(pats, refl, s, i) ==
    IF i >= Len(pats) THEN [rule |-> 0, text |-> FALLBACK]
    ELSE LET match == fullmatch(pats[i], Strip(s))
         IN  IF match.ok
             THEN [rule |-> i, text |-> response_function(pats[i], refl, match)]
             ELSE ScanPatternsSkipLast(pats, refl, s, i + 1)

\* The for loop from index i on; the result holds the returned text and the
\* index of the rule that returned it (0 when the loop ran off the table).
RECURSIVE ScanPatterns(_, _, _, _)
ScanPatterns(pats, refl, s, i) ==
    IF i > Len(pats) THEN [rule |-> 0, text |-> FALLBACK]
    ELSE LET match == fullmatch(pats[i], Strip(s))
         IN  IF match.ok
             THEN [rule |-> i, text |-> response_function(pats[i], refl, match)]
             ELSE ScanPatterns(pats, refl, s, i + 1)

get_eliza_response(pats, refl, s) == ScanPatterns(pats, refl, s, 1)

----------------------------------------------------------------------------
(* Inputs of the direct calls.                                             *)

Words ==
    { <<"h","e","l","p">>, <<"m","y"," ">>, <<"Y","o","u">>, <<"I","'","d"," ">>,
      <<" ">>, <<"\n">>, <<"\t">>, <<"?">> }

Heads ==
    { PatternsTable[i].lit : i \in 1..Len(PatternsTable) }
      \cup { <<"i"," ","N","E","E","D"," ">>, <<"I"," ","n","e","e","d">> }

Prefixes == { <<>>, <<" ">>, <<"s","o"," ">> }

RECURSIVE Fragments(_)
Fragments(n) ==
    IF n = 0 THEN { <<>> }
    ELSE Fragments(n - 1) \cup { f \o w : f \in Fragments(n - 1), w \in Words }

\* The inputs the specification's own examples name.
Examples ==
    { <<"I"," ","n","e","e","d"," ","h","e","l","p">>,
      <<"I"," ","a","m"," ","t","i","r","e","d">>,
      <<"I"," ","c","a","n","'","t"," ","s","l","e","e","p">>,
      <<"h","e","l","l","o"," ","t","h","e","r","e">>,
      <<"i"," ","a","m"," ","h","a","p","p","y">>,
      <<"W","h","y"," ","d","o","n","'","t"," ","y","o","u"," ","c","a","r","e","?">>,
      <<"?","!">> }

Inputs ==
    Examples \cup { a \o h \o f : a \in Prefixes, h \in Heads, f \in Fragments(MaxPieces) }

----------------------------------------------------------------------------
(* Direct calls of the two functions on one input.                         *)

Init ==
    /\ reflections = ReflectionsTable
    /\ patterns = PatternsTable
    /\ user_input \in Inputs
    /\ reply = <<>>
    /\ fired = -1
    /\ pc = "call"
    /\ out = <<>>
    /\ lines = <<>>
    /\ calls = <<>>
    /\ AnalysisIdle

\* get_eliza_response(user_input)
CallGetElizaResponse ==
    /\ pc = "call"
    /\ LET r == get_eliza_response(patterns, reflections, user_input)
       IN  /\ reply' = r.text
           /\ fired' = r.rule
    /\ pc' = "responded"
    /\ UNCHANGED <<nlpvars, reflections, patterns, user_input, out, lines, calls>>

\* reflect(user_input)
CallReflect ==
    /\ pc = "call"
    /\ reply' = reflect(reflections, user_input)
    /\ pc' = "reflected"
    /\ UNCHANGED <<nlpvars, reflections, patterns, user_input, fired, out, lines, calls>>

Next == CallGetElizaResponse \/ CallReflect

Spec == Init /\ [][Next]_vars

----------------------------------------------------------------------------
(* eliza_chatbot: the interactive loop.                                    *)
(*                                                                         *)
(* pc is the statement about to run:                                       *)
(*   "greet"    line 115, print of the greeting, before the try            *)
(*   "input"    line 118, input("> ").strip()                              *)
(*   "check"    line 119, the exit-keyword test                            *)
(*   "bye"      line 120, print of the farewell inside the try             *)
(*   "break"    line 121                                                   *)
(*   "respond"  line 122, print of the reply                               *)
(*   "except"   line 124, print of the farewell in the handler             *)
(*   "done"     the function returned                                      *)
(*   "crashed"  an exception left the function                             *)

GREETING ==
    <<"E","L","I","Z","A",":"," ","H","e","l","l","o","."," ","H","o","w"," ","a","r","e"," ","y","o","u"," ","f","e","e","l","i","n","g"," ","t","o","d","a","y","?">>

FAREWELL ==
    <<"E","L","I","Z","A",":"," ","G","o","o","d","b","y","e","."," ","T","a","k","e"," ","c","a","r","e","!">>

LABEL == <<"E","L","I","Z","A",":"," ">>

PROMPT == <<">"," ">>

EXIT_KEYWORDS == { <<"q","u","i","t">>, <<"e","x","i","t">>, <<"b","y","e">> }

\* stdout after print(text): the text and a line feed, in one write.
Printed(o, text) == Append(o, text \o <<"\n">>)

\* stdout after input(prompt) has shown its prompt.
Prompted(o) == Append(o, PROMPT)

\* The lines a user may type (input() returns them without their line feed).
StdinLines ==
    { <<"q","u","i","t">>, <<" ","B","Y","E"," ">>, <<"E","x","i","t">>,
      <<"I"," ","n","e","e","d"," ","h","e","l","p">>,
      <<"h","e","l","l","o"," ","t","h","e","r","e">>,
      <<"q","u","i","t"," ","i","t">>,
      <<>> }

InitChat ==
    /\ reflections = ReflectionsTable
    /\ patterns = PatternsTable
    /\ user_input = <<>>
    /\ reply = <<>>
    /\ fired = -1
    /\ pc = "greet"
    /\ out = <<>>
    /\ lines = <<>>
    /\ calls = <<>>
    /\ AnalysisIdle

\* line 115
Greet ==
    /\ pc = "greet"
    /\ out' = Printed(out, GREETING)
    /\ pc' = "input"
    /\ UNCHANGED <<nlpvars, reflections, patterns, user_input, reply, fired, lines, calls>>

\* line 118, input() returning a line
ReadLine ==
    /\ pc = "input"
    /\ Len(lines) < MaxTurns
    /\ \E line \in StdinLines :
         /\ lines' = Append(lines, line)
         /\ user_input' = Strip(line)
    /\ out' = Prompted(out)
    /\ pc' = "check"
    /\ UNCHANGED <<nlpvars, reflections, patterns, reply, fired, calls>>

\* line 118, input() raising EOFError at the end of stdin
EndOfInput ==
    /\ pc = "input"
    /\ out' = Prompted(out)
    /\ pc' = "except"
    /\ UNCHANGED <<nlpvars, reflections, patterns, user_input, reply, fired, lines, calls>>

\* line 119 without .lower(): the keywords are compared as typed.
CheckExitCaseSensitive ==
    /\ pc = "check"
    /\ pc' = IF user_input \in EXIT_KEYWORDS THEN "bye" ELSE "respond"
    /\ UNCHANGED <<nlpvars, reflections, patterns, user_input, reply, fired, out, lines, calls>>

\* line 119
CheckExit ==
    /\ pc = "check"
    /\ pc' = IF Lower(user_input) \in EXIT_KEYWORDS THEN "bye" ELSE "respond"
    /\ UNCHANGED <<nlpvars, reflections, patterns, user_input, reply, fired, out, lines, calls>>

\* line 120
Bye ==
    /\ pc = "bye"
    /\ out' = Printed(out, FAREWELL)
    /\ pc' = "break"
    /\ UNCHANGED <<nlpvars, reflections, patterns, user_input, reply, fired, lines, calls>>

\* line 121
Break ==
    /\ pc = "break"
    /\ pc' = "done"
    /\ UNCHANGED <<nlpvars, reflections, patterns, user_input, reply, fired, out, lines, calls>>

\* line 122 with a get_eliza_response that moves the rule it used to the end of
\* the table.
RespondMovingRule ==
    /\ pc = "respond"
    /\ LET r == get_eliza_response(patterns, reflections, user_input)
       IN  /\ reply' = r.text
           /\ fired' = r.rule
           /\ calls' = Append(calls, [arg |-> user_input, ret |-> r.text])
           /\ out' = Printed(out, LABEL \o r.text)
           /\ patterns' = IF r.rule = 0 THEN patterns
                          ELSE SubSeq(patterns, 1, r.rule - 1)
                                 \o SubSeq(patterns, r.rule + 1, Len(patterns))
                                 \o <<patterns[r.rule]>>
    /\ pc' = "input"
    /\ UNCHANGED <<nlpvars, reflections, user_input, lines>>

\* line 122
Respond ==
    /\ pc = "respond"
    /\ LET r == get_eliza_response(patterns, reflections, user_input)
       IN  /\ reply' = r.text
           /\ fired' = r.rule
           /\ calls' = Append(calls, [arg |-> user_input, ret |-> r.text])
           /\ out' = Printed(out, LABEL \o r.text)
    /\ pc' = "input"
    /\ UNCHANGED <<nlpvars, reflections, patterns, user_input, lines>>

\* lines 123-124
Except ==
    /\ pc = "except"
    /\ out' = Printed(out, <<"\n">> \o FAREWELL)
    /\ pc' = "done"
    /\ UNCHANGED <<nlpvars, reflections, patterns, user_input, reply, fired, lines, calls>>

\* KeyboardInterrupt raised while the user is at the prompt of input().
InterruptAtPrompt ==
    /\ pc = "input"
    /\ out' = Prompted(out)
    /\ pc' = "except"
    /\ UNCHANGED <<nlpvars, reflections, patterns, user_input, reply, fired, lines, calls>>

\* KeyboardInterrupt raised at a statement inside the try block (lines 117-122):
\* the except clause of line 123 catches it.
InterruptInTry ==
    /\ pc \in {"input", "check", "bye", "break", "respond"}
    /\ pc' = "except"
    /\ UNCHANGED <<nlpvars, reflections, patterns, user_input, reply, fired, out, lines, calls>>

\* KeyboardInterrupt raised outside the try block (line 115) or inside the
\* handler (line 124): nothing catches it.
InterruptOutsideTry ==
    /\ pc \in {"greet", "except"}
    /\ pc' = "crashed"
    /\ UNCHANGED <<nlpvars, reflections, patterns, user_input, reply, fired, out, lines, calls>>

NextChat ==
    \/ Greet
    \/ ReadLine
    \/ EndOfInput
    \/ CheckExit
    \/ Bye
    \/ Break
    \/ Respond
    \/ Except
    \/ InterruptAtPrompt
    \/ InterruptInTry
    \/ InterruptOutsideTry

SpecChat == InitChat /\ [][NextChat]_vars

----------------------------------------------------------------------------
(* nltktokenization.py: tokenize_text.                                     *)
(*                                                                         *)
(* regexp_tokenize(text, pattern) compiles the pattern and returns         *)
(* re.findall of it on the text.  The pattern is an alternation of five    *)
(* alternatives, three of which hold a capturing group:                    *)
(*    ([A-Z]\.)+  |  \w+(-\w+)*  |  \$?\d+(\.\d+)?%?  |  \.\.\.  |  [...]  *)

ASCII_UPPER == DOMAIN UPPER_TO_LOWER

ASCII_LOWER == { UPPER_TO_LOWER[c] : c \in ASCII_UPPER }

DIGITS == {"0", "1", "2", "3", "4", "5", "6", "7", "8", "9"}

\* \w (the characters in play)
WORD_CHARS == ASCII_UPPER \cup ASCII_LOWER \cup DIGITS \cup {"_"}

\* The class of the last alternative: ] [ . , ; " ' ? ( ) and the range from
\* ":" to "_" (the characters in play; "-" and "%" are not in it).
PUNCTUATION ==
    {"]", "[", ".", ",", ";", "\"", "'", "?", "(", ")"}
      \cup {":", ";", "<", "=", ">", "?", "@", "[", "\\", "]", "^", "_"}
      \cup ASCII_UPPER

\* No alternative matches at a position.
NoMatchAt == [len |-> 0, groups |-> << <<>>, <<>>, <<>> >>]

\* \w+ and \d+ at position i: the length of the run (0: no match).
RECURSIVE WordRun(_, _)
WordRun(s, i) ==
    IF i <= Len(s) /\ s[i] \in WORD_CHARS THEN 1 + WordRun(s, i + 1) ELSE 0

RECURSIVE DigitRun(_, _)
DigitRun(s, i) ==
    IF i <= Len(s) /\ s[i] \in DIGITS THEN 1 + DigitRun(s, i + 1) ELSE 0

\* ([A-Z]\.)+ at position i; group 1 holds the last repetition.
RECURSIVE AbbreviationReps(_, _)
AbbreviationReps(s, i) ==
    IF i + 1 <= Len(s) /\ s[i] \in ASCII_UPPER /\ s[i + 1] = "."
    THEN 1 + AbbreviationReps(s, i + 2) ELSE 0

Abbreviation(s, i) ==
    LET n == AbbreviationReps(s, i)
    IN  IF n = 0 THEN NoMatchAt
        ELSE [len |-> 2 * n,
              groups |-> << SubSeq(s, i + 2 * n - 2, i + 2 * n - 1), <<>>, <<>> >>]

\* (-\w+)* from position j on; group 2 holds the last repetition.
RECURSIVE HyphenParts(_, _, _)
HyphenParts(s, j, last) ==
    IF j <= Len(s) /\ s[j] = "-" /\ WordRun(s, j + 1) > 0
    THEN HyphenParts(s, j + 1 + WordRun(s, j + 1), SubSeq(s, j, j + WordRun(s, j + 1)))
    ELSE [end |-> j, group |-> last]

\* \w+(-\w+)* at position i
HyphenatedWord(s, i) ==
    LET w == WordRun(s, i)
        h == HyphenParts(s, i + w, <<>>)
    IN  IF w = 0 THEN NoMatchAt
        ELSE [len |-> h.end - i, groups |-> << <<>>, h.group, <<>> >>]

\* \$?\d+(\.\d+)?%? at position i; group 3 holds the decimal portion.
CurrencyOrPercent(s, i) ==
    LET d    == IF i <= Len(s) /\ s[i] = "$" THEN i + 1 ELSE i
        n    == DigitRun(s, d)
        f    == IF d + n <= Len(s) /\ s[d + n] = "." THEN DigitRun(s, d + n + 1) ELSE 0
        e    == IF f > 0 THEN d + n + 1 + f ELSE d + n
        pct  == IF e <= Len(s) /\ s[e] = "%" THEN 1 ELSE 0
    IN  IF n = 0 THEN NoMatchAt
        ELSE [len |-> e + pct - i,
              groups |-> << <<>>, <<>>, IF f > 0 THEN SubSeq(s, d + n, e - 1) ELSE <<>> >>]

\* \.\.\. at position i
Ellipsis(s, i) ==
    IF i + 2 <= Len(s) /\ s[i] = "." /\ s[i + 1] = "." /\ s[i + 2] = "."
    THEN [len |-> 3, groups |-> NoMatchAt.groups] ELSE NoMatchAt

\* One character of the punctuation class at position i
Punctuation(s, i) ==
    IF s[i] \in PUNCTUATION THEN [len |-> 1, groups |-> NoMatchAt.groups] ELSE NoMatchAt

\* The whole pattern at position i: the first alternative, in the order of the
\* pattern, that matches there.
MatchAt(s, i) ==
    IF Abbreviation(s, i).len > 0 THEN Abbreviation(s, i)
    ELSE IF HyphenatedWord(s, i).len > 0 THEN HyphenatedWord(s, i)
    ELSE IF CurrencyOrPercent(s, i).len > 0 THEN CurrencyOrPercent(s, i)
    ELSE IF Ellipsis(s, i).len > 0 THEN Ellipsis(s, i)
    ELSE Punctuation(s, i)

\* The successive non-overlapping matches from position i on, left to right: a
\* position where nothing matches is skipped.
RECURSIVE finditer(_, _)
finditer(s, i) ==
    IF i > Len(s) THEN <<>>
    ELSE LET m == MatchAt(s, i)
         IN  IF m.len = 0 THEN finditer(s, i + 1)
             ELSE << [start |-> i, matched |-> SubSeq(s, i, i + m.len - 1),
                      groups |-> m.groups] >> \o finditer(s, i + m.len)

\* The two kinds of item a list returned by re.findall may hold: a str, or a
\* tuple of str.  A tuple never equals a str.
Str(s) == [str |-> s]

Tuple(groups) == [tuple |-> groups]

\* re.findall for a pattern with several groups: per match, the tuple of its
\* groups (empty for a group that took no part), not the matched text.
findall(s) ==
    LET ms == finditer(s, 1)
    IN  [j \in 1..Len(ms) |-> Tuple(ms[j].groups)]

\* nltk.tokenize.regexp_tokenize(text, pattern)
regexp_tokenize(s) == findall(s)

tokenize_text(s) == regexp_tokenize(s)

----------------------------------------------------------------------------
(* Texts given to tokenize_text and text_analysis_pipeline.                *)

TextPieces ==
    { <<"U",".","S",".","A",".">>, <<"p","o","s","t","e","r","-","p","r","i","n","t">>,
      <<"$","1","2",".","4","0">>, <<"8","2","%">>, <<".",".",".">>,
      <<"c","o","s","t","s">>, <<" ">>, <<"-">>, <<"$">>, <<"%">>, <<".">>,
      <<"A">>, <<"7">> }

RECURSIVE TextsOf(_)
TextsOf(n) ==
    IF n = 0 THEN { <<>> }
    ELSE TextsOf(n - 1) \cup { t \o w : t \in TextsOf(n - 1), w \in TextPieces }

\* example_text of the __main__ block
EXAMPLE_TEXT ==
    <<"T","h","a","t"," ","U",".","S",".","A","."," ","p","o","s","t","e","r","-","p","r","i","n","t"," ","c","o","s","t","s"," ","$","1","2",".","4","0",".",".",".">>

Texts == {EXAMPLE_TEXT} \cup TextsOf(MaxTextPieces)

----------------------------------------------------------------------------
(* nltktokenization.py: compute_vocabulary and heaps_law_estimation.       *)

\* compute_vocabulary(tokens): the number of distinct tokens and their set.
compute_vocabulary(toks) ==
    LET vocabulary_set == { toks[i] : i \in 1..Len(toks) }
    IN  <<Cardinality(vocabulary_set), vocabulary_set>>

\* A float the model can compare exactly: coef * base^(exp10/10), with base >= 1,
\* in a canonical form (0 is coef 0; x^0, 1^x and x^1 are folded into coef).
Real(coef, base, exp10) ==
    IF coef = 0 THEN [kind |-> "float", coef |-> 0, base |-> 1, exp10 |-> 0]
    ELSE IF base = 1 \/ exp10 = 0
         THEN [kind |-> "float", coef |-> coef, base |-> 1, exp10 |-> 0]
    ELSE IF exp10 = 10
         THEN [kind |-> "float", coef |-> coef * base, base |-> 1, exp10 |-> 0]
    ELSE [kind |-> "float", coef |-> coef, base |-> base, exp10 |-> exp10]

\* The exception of 0 ** negative.
ZeroDivisionError == [kind |-> "raise", error |-> "ZeroDivisionError"]

\* A power operator for which 0 ** beta is 0.0 whatever beta is.
PowerZeroBaseZero(n, b) ==
    IF n = 0 THEN Real(0, 1, 0) ELSE Real(1, n, b)

\* num_tokens ** beta for num_tokens >= 0 and beta = b/10:
\* 0 ** positive is 0.0, 0 ** 0 is 1, 0 ** negative raises ZeroDivisionError.
Power(n, b) ==
    IF n = 0
    THEN IF b > 0 THEN Real(0, 1, 0)
         ELSE IF b = 0 THEN Real(1, 1, 0)
         ELSE ZeroDivisionError
    ELSE Real(1, n, b)

\* k * x; an exception raised while computing x leaves the expression.
Times(kk, x) ==
    IF x.kind = "raise" THEN x ELSE Real(kk * x.coef, x.base, x.exp10)

\* heaps_law_estimation(num_tokens, beta, k)
heaps_law_estimation(n, b, kk) == Times(kk, Power(n, b))

\* The values of beta (in tenths) and of k a caller supplies.
Betas == {-10, -7, 0, DEFAULT_BETA, 10}

Ks == {-2, 0, 1, DEFAULT_K}

\* patternmatching.py untouched: its tables as defined, nothing called or printed.
ElizaIdle ==
    /\ reflections = ReflectionsTable
    /\ patterns = PatternsTable
    /\ user_input = <<>>
    /\ reply = <<>>
    /\ fired = -1
    /\ out = <<>>
    /\ lines = <<>>
    /\ calls = <<>>

elizavars == <<reflections, patterns, user_input, reply, fired, lines, calls>>

InitHeaps ==
    /\ ElizaIdle
    /\ pc = "call"
    /\ input_text = <<>>
    /\ token_list = <<>>
    /\ vocabulary = {}
    /\ num_tokens \in 0..MaxTokens
    /\ heaps_beta \in Betas
    /\ heaps_k \in Ks
    /\ estimated_vocab_size = NoEstimate
    /\ called = {}
    /\ error = ""

\* heaps_law_estimation(num_tokens, beta, k): lines 58-59, or the exception of line 58
CallHeapsLawEstimation ==
    /\ pc = "call"
    /\ LET r == heaps_law_estimation(num_tokens, heaps_beta, heaps_k)
       IN  IF r.kind = "raise"
           THEN /\ pc' = "raised"
                /\ error' = r.error
                /\ UNCHANGED estimated_vocab_size
           ELSE /\ pc' = "returned"
                /\ estimated_vocab_size' = r
                /\ UNCHANGED error
    /\ UNCHANGED <<elizavars, out, input_text, token_list, vocabulary, num_tokens,
                   heaps_beta, heaps_k, called>>

NextHeaps == CallHeapsLawEstimation

SpecHeaps == InitHeaps /\ [][NextHeaps]_vars

----------------------------------------------------------------------------
(* nltktokenization.py: tokenize_text called on its own, and               *)
(* text_analysis_pipeline statement by statement.                          *)

\* The literal parts of the four f-strings of lines 86-89.
NUMBER_OF_TOKENS == "Number of Tokens (N): "
VOCABULARY_SIZE == "Vocabulary Size (|V|): "
VOCABULARY_SET == "Vocabulary Set: "
ESTIMATED_VOCABULARY_SIZE == "Estimated Vocabulary Size (Heap's Law): "

\* stdout after print(f"{label}{value}"): the write is kept as the literal part
\* and the value formatted into it.
PrintedValue(o, label, value) == Append(o, [label |-> label, value |-> value])

InitAnalysis ==
    /\ ElizaIdle
    /\ pc = "call"
    /\ input_text \in Texts
    /\ token_list = <<>>
    /\ vocabulary = {}
    /\ num_tokens = 0
    /\ heaps_beta = DEFAULT_BETA
    /\ heaps_k = DEFAULT_K
    /\ estimated_vocab_size = NoEstimate
    /\ called = {}
    /\ error = ""

\* tokenize_text(text)
CallTokenizeText ==
    /\ pc = "call"
    /\ token_list' = tokenize_text(input_text)
    /\ pc' = "tokenized"
    /\ UNCHANGED <<elizavars, out, input_text, vocabulary, num_tokens, heaps_beta,
                   heaps_k, estimated_vocab_size, called, error>>

\* A guard that rejects every text str.strip() empties.
PipelineGuardStripped ==
    /\ pc = "call"
    /\ IF Strip(input_text) = <<>>
       THEN /\ pc' = "raised"
            /\ error' = "ValueError"
       ELSE /\ pc' = "tokenize"
            /\ UNCHANGED error
    /\ UNCHANGED <<elizavars, out, input_text, token_list, vocabulary, num_tokens,
                   heaps_beta, heaps_k, estimated_vocab_size, called>>

\* text_analysis_pipeline(text), lines 72-73: `if not text: raise ValueError(...)`;
\* a str is falsy exactly when it is empty.
PipelineGuard ==
    /\ pc = "call"
    /\ IF input_text = <<>>
       THEN /\ pc' = "raised"
            /\ error' = "ValueError"
       ELSE /\ pc' = "tokenize"
            /\ UNCHANGED error
    /\ UNCHANGED <<elizavars, out, input_text, token_list, vocabulary, num_tokens,
                   heaps_beta, heaps_k, estimated_vocab_size, called>>

\* lines 76-77
PipelineTokenize ==
    /\ pc = "tokenize"
    /\ token_list' = tokenize_text(input_text)
    /\ num_tokens' = Len(tokenize_text(input_text))
    /\ called' = called \cup {"tokenize_text"}
    /\ pc' = "vocabulary"
    /\ UNCHANGED <<elizavars, out, input_text, vocabulary, heaps_beta, heaps_k,
                   estimated_vocab_size, error>>

\* line 80
PipelineVocabulary ==
    /\ pc = "vocabulary"
    /\ vocabulary' = compute_vocabulary(token_list)[2]
    /\ called' = called \cup {"compute_vocabulary"}
    /\ pc' = "estimate"
    /\ UNCHANGED <<elizavars, out, input_text, token_list, num_tokens, heaps_beta,
                   heaps_k, estimated_vocab_size, error>>

\* line 83: heaps_law_estimation(num_tokens) with the defaults of line 46
PipelineEstimate ==
    /\ pc = "estimate"
    /\ estimated_vocab_size' = heaps_law_estimation(num_tokens, DEFAULT_BETA, DEFAULT_K)
    /\ called' = called \cup {"heaps_law_estimation"}
    /\ pc' = "print"
    /\ UNCHANGED <<elizavars, out, input_text, token_list, vocabulary, num_tokens,
                   heaps_beta, heaps_k, error>>

\* lines 86-89
PipelinePrint ==
    /\ pc = "print"
    /\ out' = PrintedValue(
                PrintedValue(
                  PrintedValue(
                    PrintedValue(out, NUMBER_OF_TOKENS, num_tokens),
                    VOCABULARY_SIZE, compute_vocabulary(token_list)[1]),
                  VOCABULARY_SET, vocabulary),
                ESTIMATED_VOCABULARY_SIZE, estimated_vocab_size)
    /\ pc' = "pipeline_done"
    /\ UNCHANGED <<elizavars, nlpvars>>

NextAnalysis ==
    \/ CallTokenizeText
    \/ PipelineGuard
    \/ PipelineTokenize
    \/ PipelineVocabulary
    \/ PipelineEstimate
    \/ PipelinePrint

SpecAnalysis == InitAnalysis /\ [][NextAnalysis]_vars

----------------------------------------------------------------------------
(* Vocabulary of the properties: the regular expressions and reflect read  *)
(* as definitions of what they accept and produce, not as a computation.   *)

\* The values group 1 may take in a match of the whole of s by pattern p:
\* s is the literal (in any letter case), then group 1 (at least p.least
\* characters, none a line feed), then nothing or the optional question mark.
Captures(p, s) ==
    LET n == Len(p.lit)
        ends == { j \in n..Len(s) :
                    /\ \A i \in 1..n : LowerChar(s[i]) = LowerChar(p.lit[i])
                    /\ j - n >= p.least
                    /\ \A i \in (n + 1)..j : s[i] # "\n"
                    /\ \/ j = Len(s)
                       \/ p.optq /\ j = Len(s) - 1 /\ s[Len(s)] = "?" }
    IN  { SubSeq(s, n + 1, j) : j \in ends }

FullyMatches(p, s) == Captures(p, s) # {}

\* The rules of the table that fully match the trimmed input.
MatchingRules(s) ==
    { i \in 1..Len(PatternsTable) : FullyMatches(PatternsTable[i], Strip(s)) }

CatchAll == Len(PatternsTable)

\* Positions where a word of s starts, and where the word starting at i ends.
WordStarts(s) ==
    { i \in 1..Len(s) : s[i] \notin WHITESPACE /\ (i = 1 \/ s[i - 1] \in WHITESPACE) }

WordEnd(s, i) ==
    CHOOSE j \in i..Len(s) :
        /\ \A k \in i..j : s[k] \notin WHITESPACE
        /\ j = Len(s) \/ s[j + 1] \in WHITESPACE

\* The n-th word of s.
WordAt(s, n) ==
    LET i == CHOOSE a \in WordStarts(s) :
                 Cardinality({ b \in WordStarts(s) : b < a }) = n - 1
    IN  SubSeq(s, i, WordEnd(s, i))

\* r is the words of the lowercased f in order, each replaced by its entry of
\* the reflection map when it has one, with one space between neighbours.
IsReflectionOf(r, f) ==
    LET low == Lower(f)
        n   == Cardinality(WordStarts(low))
        w   == [i \in 1..n |->
                  IF WordAt(low, i) \in DOMAIN ReflectionsTable
                  THEN ReflectionsTable[WordAt(low, i)]
                  ELSE WordAt(low, i)]
        off[i \in 1..n] == IF i = 1 THEN 0 ELSE off[i - 1] + Len(w[i - 1]) + 1
    IN  /\ Len(r) = IF n = 0 THEN 0 ELSE off[n] + Len(w[n])
        /\ \A i \in 1..n :
             /\ SubSeq(r, off[i] + 1, off[i] + Len(w[i])) = w[i]
             /\ i > 1 => r[off[i]] = " "

PLEASE_TELL_ME_MORE ==
    <<"P","l","e","a","s","e"," ","t","e","l","l"," ","m","e"," ","m","o","r","e",".">>

I_NEED_HELP == <<"I"," ","n","e","e","d"," ","h","e","l","p">>
I_AM_TIRED == <<"I"," ","a","m"," ","t","i","r","e","d">>
I_CANT_SLEEP == <<"I"," ","c","a","n","'","t"," ","s","l","e","e","p">>
HELLO_THERE == <<"h","e","l","l","o"," ","t","h","e","r","e">>
SO_I_NEED_HELP == <<"s","o"," ","I"," ","n","e","e","d"," ","h","e","l","p">>
I_AM_HAPPY == <<"i"," ","a","m"," ","h","a","p","p","y">>

----------------------------------------------------------------------------
(* Properties of the direct calls (Spec).                                  *)

\* C1: get_eliza_response is total: for every input (empty, whitespace only,
\* punctuation, with line breaks) the call returns a non-empty string, from a
\* rule of the table or from the statement after the loop.
C1_RespondTotal ==
    pc = "responded" =>
        /\ Len(reply) > 0
        /\ fired \in 0..Len(PatternsTable)

\* A call has returned for an input with a line break inside its trimmed text.
C1_Witness ==
    /\ pc = "responded"
    /\ \E i \in 1..Len(Strip(user_input)) : Strip(user_input)[i] = "\n"

\* C2 (as claimed): every reply is produced by exactly one rule, the
\* lowest-index rule that fully matches the trimmed input.
C2_FirstFullMatchWins ==
    pc = "responded" =>
        /\ MatchingRules(user_input) # {}
        /\ fired \in MatchingRules(user_input)
        /\ \A j \in MatchingRules(user_input) : fired <= j

\* C3 (as claimed): the last rule fully matches every trimmed input, so the
\* loop never runs off the end of the table.
C3_CatchAllMatchesEverything ==
    pc = "responded" =>
        /\ FullyMatches(PatternsTable[CatchAll], Strip(user_input))
        /\ fired # 0

\* C4: the fallback string is returned exactly when no rule fully matches the
\* trimmed input; the result is then neither empty nor an error.
C4_FailClosed ==
    pc = "responded" =>
        /\ (MatchingRules(user_input) = {}) <=> (reply = FALLBACK)
        /\ (MatchingRules(user_input) = {}) <=> (fired = 0)

\* A call has returned the fallback string.
C4_Witness == pc = "responded" /\ reply = FALLBACK /\ MatchingRules(user_input) = {}

\* C6: when one of the seven specific rules fires, the reply is that rule's
\* template around reflect(captured fragment); the three examples of the
\* specification give the replies it states.
C6_TemplateAroundReflection ==
    pc = "responded" =>
        /\ fired \in 1..(CatchAll - 1) =>
             LET p   == PatternsTable[fired]
                 mid == SubSeq(reply, Len(p.pre) + 1, Len(reply) - Len(p.post))
             IN  /\ Len(reply) >= Len(p.pre) + Len(p.post)
                 /\ reply = p.pre \o mid \o p.post
                 /\ \E g \in Captures(p, Strip(user_input)) : IsReflectionOf(mid, g)
        /\ user_input = I_NEED_HELP =>
             reply = <<"W","h","y"," ","d","o"," ","y","o","u"," ","n","e","e","d"," ","h","e","l","p","?">>
        /\ user_input = I_AM_TIRED =>
             reply = <<"H","o","w"," ","l","o","n","g"," ","h","a","v","e"," ","y","o","u"," ","b","e","e","n"," ","t","i","r","e","d","?">>
        /\ user_input = I_CANT_SLEEP =>
             reply = <<"W","h","a","t"," ","m","a","k","e","s"," ","y","o","u"," ","t","h","i","n","k"," ","y","o","u"," ","c","a","n","'","t"," ","s","l","e","e","p","?">>

\* The "I can't" rule has fired on "I can't sleep".
C6_Witness == pc = "responded" /\ user_input = I_CANT_SLEEP /\ fired = 4

\* C7: an input that no specific rule fully matches and the catch-all does
\* yields exactly "Please tell me more.".
C7_CatchAllReply ==
    pc = "responded" =>
        /\ MatchingRules(user_input) = {CatchAll} => reply = PLEASE_TELL_ME_MORE
        /\ user_input \in {HELLO_THERE, SO_I_NEED_HELP} => reply = PLEASE_TELL_ME_MORE

\* A call has returned for a sentence that contains "I need help" after another word.
C7_Witness == pc = "responded" /\ user_input = SO_I_NEED_HELP /\ fired = CatchAll

\* C8: reflect returns the words of the lowercased fragment in order, mapped
\* words replaced and the others kept, joined by single spaces; and
\* reflect("i am happy") = "you are happy".
C8_Reflect ==
    pc = "reflected" =>
        /\ IsReflectionOf(reply, user_input)
        /\ user_input = I_AM_HAPPY =>
             reply = <<"y","o","u"," ","a","r","e"," ","h","a","p","p","y">>

\* reflect has returned for a fragment with a mapped word in upper case,
\* an unmapped word and a run of whitespace.
C8_Witness ==
    /\ pc = "reflected"
    /\ Cardinality(WordStarts(user_input)) >= 3
    /\ \E i \in 1..Cardinality(WordStarts(user_input)) :
         /\ WordAt(user_input, i) \notin DOMAIN ReflectionsTable
         /\ WordAt(Lower(user_input), i) \in DOMAIN ReflectionsTable
    /\ \E i \in 1..(Len(user_input) - 1) :
         user_input[i] \in WHITESPACE /\ user_input[i + 1] \in WHITESPACE

WHY_DONT_YOU_CARE_Q ==
    <<"W","h","y"," ","d","o","n","'","t"," ","y","o","u"," ","c","a","r","e","?">>

\* The trimmed input ends with a question mark.
EndsWithQuestionMark(s) == Strip(s) # <<>> /\ Strip(s)[Len(Strip(s))] = "?"

\* C15: when "Why don't you X" or "Why can't I X" fires on an input that ends
\* with a question mark, the question mark belongs to the captured X: the
\* reply is the template around the reflection of everything after the
\* literal, and that reflection ends with "?" right before the template's
\* closing text; "Why don't you care?" gives "Do you really think I don't care??".
C15_QuestionMarkCaptured ==
    pc = "responded" =>
        /\ fired \in {2, 3} /\ EndsWithQuestionMark(user_input) =>
             LET p    == PatternsTable[fired]
                 rest == SubSeq(Strip(user_input), Len(p.lit) + 1, Len(Strip(user_input)))
                 mid  == SubSeq(reply, Len(p.pre) + 1, Len(reply) - Len(p.post))
             IN  /\ reply = p.pre \o mid \o p.post
                 /\ IsReflectionOf(mid, rest)
                 /\ mid # <<>> /\ mid[Len(mid)] = "?"
        /\ user_input = WHY_DONT_YOU_CARE_Q =>
             reply = <<"D","o"," ","y","o","u"," ","r","e","a","l","l","y"," ","t","h","i","n","k"," ","I"," ","d","o","n","'","t"," ","c","a","r","e","?","?">>

\* "Why can't I X" has fired on an input ending with a question mark.
C15_Witness ==
    /\ pc = "responded"
    /\ fired = 3
    /\ EndsWithQuestionMark(user_input)
    /\ Len(Strip(user_input)) > Len(PatternsTable[3].lit) + 1

----------------------------------------------------------------------------
(* Properties of the interactive loop (SpecChat).                          *)

\* C5: no memory across calls: the same argument gives the same reply whatever
\* was processed before, and the two tables are never modified.
C5_NoMemory ==
    /\ reflections = ReflectionsTable
    /\ patterns = PatternsTable
    /\ \A i, j \in 1..Len(calls) :
         calls[i].arg = calls[j].arg => calls[i].ret = calls[j].ret

\* The same argument was processed twice with another one in between.
C5_Witness ==
    /\ Len(calls) = 3
    /\ calls[1].arg = calls[3].arg
    /\ calls[2].arg # calls[1].arg
    /\ calls[2].ret # calls[1].ret

IsFarewell(w) == w = FAREWELL \o <<"\n">> \/ w = <<"\n">> \o FAREWELL \o <<"\n">>

\* C9 (as claimed): every run that ends prints the farewell exactly once, as
\* its last output, and ends normally, wherever an interrupt arrived.
C9_FarewellOnceThenStop ==
    /\ pc # "crashed"
    /\ pc = "done" =>
         /\ Cardinality({ i \in 1..Len(out) : IsFarewell(out[i]) }) = 1
         /\ IsFarewell(out[Len(out)])

\* The trimmed line is quit, exit or bye in some letter case.
IsExitLine(line) ==
    \E k \in EXIT_KEYWORDS :
        /\ Len(Strip(line)) = Len(k)
        /\ \A i \in 1..Len(k) : LowerChar(Strip(line)[i]) = k[i]

ReplyLine(line) ==
    LABEL \o get_eliza_response(PatternsTable, ReflectionsTable, line).text \o <<"\n">>

\* C10: the greeting is printed once, before the first read; an exit keyword
\* stops the loop without a call of get_eliza_response on it; every other line
\* gets exactly one reply line, "ELIZA: " and get_eliza_response(line), before
\* the next line is read.
C10_LoopProtocol ==
    LET n == Len(lines)
    IN  /\ out # <<>> => out[1] = GREETING \o <<"\n">>
        /\ \A i \in 2..Len(out) : out[i] # GREETING \o <<"\n">>
        /\ n > 0 => Len(out) >= 2 * n
        /\ \A i \in 1..n : out[2 * i] = PROMPT
        /\ \A i \in 1..(n - 1) :
             /\ ~IsExitLine(lines[i])
             /\ out[2 * i + 1] = ReplyLine(lines[i])
        /\ pc = "input" /\ n > 0 =>
             /\ ~IsExitLine(lines[n])
             /\ Len(out) = 2 * n + 1
             /\ out[2 * n + 1] = ReplyLine(lines[n])
        /\ Len(calls) <= n
        /\ \A c \in 1..Len(calls) :
             calls[c].arg = Strip(lines[c]) /\ ~IsExitLine(lines[c])

\* The loop has replied to one line and stopped at an exit keyword typed in
\* upper case with blanks around it.
C10_Witness ==
    /\ pc = "done"
    /\ Len(lines) = 2
    /\ lines[2] = <<" ","B","Y","E"," ">>
    /\ Len(calls) = 1
    /\ out[3] = ReplyLine(lines[1])

----------------------------------------------------------------------------
(* Properties of text_analysis_pipeline and tokenize_text, checked under   *)
(* SpecAnalysis.                                                           *)

\* text_analysis_pipeline has passed its guard.
InPipeline == pc \in {"tokenize", "vocabulary", "estimate", "print", "pipeline_done"}

\* The text has no character, or only whitespace characters.
IsBlank(s) == \A i \in 1..Len(s) : s[i] \in WHITESPACE

\* C11 (as claimed): the pipeline raises the empty-input error for every text
\* that is empty or only whitespace, before it tokenizes or prints anything,
\* and for no other text.
C11_BlankTextRejected ==
    /\ pc = "raised" => error = "ValueError" /\ called = {} /\ out = <<>>
    /\ pc = "raised" \/ InPipeline => (pc = "raised" <=> IsBlank(input_text))

\* C11 (amended): the pipeline raises the empty-input error exactly when the
\* text is the empty string, before it tokenizes or prints anything; a text of
\* whitespace only passes the guard, is tokenized into no token and its four
\* result lines are printed.
C11_EmptyTextRejected ==
    /\ pc = "raised" =>
         /\ input_text = <<>>
         /\ error = "ValueError"
         /\ called = {} /\ token_list = <<>> /\ out = <<>>
    /\ InPipeline => input_text # <<>> /\ error = ""
    /\ pc = "pipeline_done" =>
         /\ called = {"tokenize_text", "compute_vocabulary", "heaps_law_estimation"}
         /\ Len(out) = 4
         /\ IsBlank(input_text) => num_tokens = 0 /\ out[1].value = 0

\* The pipeline was given the empty string and has raised.
C11_Witness ==
    /\ pc = "raised"
    /\ input_text = <<>>
    /\ error = "ValueError"

\* The matches of the pattern on s are taken left to right without overlap, each
\* the match of the first alternative that matches at its start, and nothing
\* matches at a position no match covers.
ScansLeftToRight(s) ==
    LET ms == finditer(s, 1)
        covered == { i \in 1..Len(s) :
                       \E j \in 1..Len(ms) :
                           ms[j].start <= i /\ i < ms[j].start + Len(ms[j].matched) }
    IN  /\ \A j \in 1..Len(ms) :
             /\ ms[j].matched # <<>>
             /\ MatchAt(s, ms[j].start).len = Len(ms[j].matched)
             /\ ms[j].matched = SubSeq(s, ms[j].start, ms[j].start + Len(ms[j].matched) - 1)
        /\ \A j \in 1..(Len(ms) - 1) :
             ms[j].start + Len(ms[j].matched) <= ms[j + 1].start
        /\ \A i \in 1..Len(s) : i \notin covered => MatchAt(s, i).len = 0

U_S_A == <<"U",".","S",".","A",".">>
POSTER_PRINT == <<"p","o","s","t","e","r","-","p","r","i","n","t">>
AMOUNT_12_40 == <<"$","1","2",".","4","0">>
THREE_DOTS == <<".",".",".">>

\* C12 (as claimed): tokenize_text scans left to right taking at each position
\* the first alternative that matches, one token per match in text order; on
\* the example text "U.S.A.", "poster-print", "$12.40" and "..." are each one
\* token of the returned list.
C12_ExampleTokens ==
    pc = "tokenized" =>
        /\ ScansLeftToRight(input_text)
        /\ Len(token_list) = Len(finditer(input_text, 1))
        /\ input_text = EXAMPLE_TEXT =>
             \A s \in {U_S_A, POSTER_PRINT, AMOUNT_12_40, THREE_DOTS} :
                 Cardinality({ i \in 1..Len(token_list) : token_list[i] = Str(s) }) = 1

\* The whole of s is an optional "$", one or more digits, an optional decimal
\* portion and an optional "%".
IsAmount(s) ==
    \E d \in 0..1, n \in 1..Len(s), f \in 0..Len(s), q \in 0..1 :
        /\ d + n + (IF f > 0 THEN 1 ELSE 0) + f + q = Len(s)
        /\ d = 1 => s[1] = "$"
        /\ \A i \in (d + 1)..(d + n) : s[i] \in DIGITS
        /\ f > 0 => /\ s[d + n + 1] = "."
                    /\ \A i \in (d + n + 2)..(d + n + 1 + f) : s[i] \in DIGITS
        /\ q = 1 => s[Len(s)] = "%"

\* C13 (as claimed), read at the level of the text each token stands for: a
\* text that is a currency amount or a percentage, with or without the leading
\* "$", gives exactly one token, and that token covers the whole of it.
C13_AmountIsOneToken ==
    pc = "tokenized" /\ IsAmount(input_text) =>
        /\ Len(token_list) = 1
        /\ finditer(input_text, 1)[1].matched = input_text

----------------------------------------------------------------------------
(* Properties of heaps_law_estimation, checked under SpecHeaps.            *)

\* The call has ended, by a return or by an exception.
HeapsCallEnded == pc \in {"returned", "raised"}

\* C14 (as claimed): heaps_law_estimation returns k * tokenCount^beta, and
\* returns 0 whenever tokenCount is 0, whatever beta and k are.
C14_ZeroTokensZeroEstimate ==
    HeapsCallEnded =>
        /\ pc = "returned"
        /\ num_tokens > 0 =>
             estimated_vocab_size = Real(heaps_k, num_tokens, heaps_beta)
        /\ num_tokens = 0 => estimated_vocab_size = Real(0, 1, 0)

\* C14 (amended): heaps_law_estimation returns k * tokenCount^beta without
\* validating beta or k; for tokenCount 0 it returns 0 when beta > 0 (the
\* default 0.7 included), returns k when beta = 0, and raises
\* ZeroDivisionError, returning nothing, when beta < 0.
C14_HeapsLaw ==
    HeapsCallEnded =>
        /\ num_tokens > 0 =>
             /\ pc = "returned"
             /\ estimated_vocab_size = Real(heaps_k, num_tokens, heaps_beta)
        /\ num_tokens = 0 /\ heaps_beta > 0 =>
             /\ pc = "returned"
             /\ estimated_vocab_size = Real(0, 1, 0)
        /\ num_tokens = 0 /\ heaps_beta = 0 =>
             /\ pc = "returned"
             /\ estimated_vocab_size = Real(heaps_k, 1, 0)
        /\ num_tokens = 0 /\ heaps_beta < 0 =>
             /\ pc = "raised"
             /\ error = "ZeroDivisionError"
             /\ estimated_vocab_size = NoEstimate

\* The call with no token and the default beta and k has returned 0.
C14_Witness ==
    /\ pc = "returned"
    /\ num_tokens = 0
    /\ heaps_beta = DEFAULT_BETA
    /\ heaps_k = DEFAULT_K
    /\ estimated_vocab_size.coef = 0

====
